---------------------------- MODULE Spec2Model ----------------------------
(***************************************************************************)
(* A model of extract5.py: PMC identifier lookup (fetch_pmc_ids), record   *)
(* fetch and normalisation (fetch_pmc_full_text), the collection writer    *)
(* (download_pmc_articles_for_pyserini) and the query runner (run_search). *)
(*                                                                         *)
(* Python values are tagged records: None, Str(s), List(seq), Dict(f).     *)
(* An XML element is NoElem (find() returned None) or Elem(text, ...),     *)
(* text being None or a Str.  Upstream responses are inputs chosen from    *)
(* finite sets.                                                            *)
(***************************************************************************)
EXTENDS Integers, Sequences, FiniteSets, TLC

VARIABLES
    pc,          \* position of download_pmc_articles_for_pyserini
    esearch,     \* the search endpoint's response to fetch_pmc_ids, None before the call
    pmc_ids,     \* value returned by fetch_pmc_ids (line 159)
    idx,         \* 1-based position of the for loop over pmc_ids (line 171)
    jsonl_file,  \* None before open(); List of the documents written, one per line
    events,      \* history of "fetch" / "sleep" steps of the loop
    fetched,     \* history of what fetch_pmc_full_text returned, per processed identifier
    exc,         \* name of the exception that left the function, or "none"
    call,        \* argument of a stand-alone fetch_pmc_full_text call
    ret,         \* its return value
    s_pc,        \* position of run_search
    collection,  \* lines of the collection file read by run_search
    raw_docs,    \* run_search's id -> document map
    hits,        \* what searcher.search returned
    results      \* run_search's result list

vars == <<pc, esearch, pmc_ids, idx, jsonl_file, events, fetched, exc, call, ret,
          s_pc, collection, raw_docs, hits, results>>

dlVars == <<pc, esearch, pmc_ids, idx, jsonl_file, events, fetched, exc>>
fnVars == <<call, ret>>
rsVars == <<s_pc, collection, raw_docs, hits, results>>

-----------------------------------------------------------------------------
(* Bounds of the model *)

MaxIds == 2      \* longest identifier list of a lookup response
MaxSecs == 2     \* most <sec> elements in a record body
MaxDocs == 2     \* most lines of a collection file read by run_search
MaxHits == 2     \* most hits of one search

-----------------------------------------------------------------------------
(* Python values *)

None == [tag |-> "None"]
Str(s) == [tag |-> "str", v |-> s]
List(q) == [tag |-> "list", v |-> q]
Dict(f) == [tag |-> "dict", v |-> f]

NoExc == "none"

\* bool(x) for the values the script tests: None, strings, lists, dicts
Truthy(x) ==
    CASE x.tag = "None" -> FALSE
      [] x.tag = "str"  -> x.v # ""
      [] x.tag = "list" -> x.v # <<>>
      [] x.tag = "dict" -> DOMAIN x.v # {}
      [] OTHER -> TRUE

\* str(x) as an f-string placeholder renders it
Format(x) == IF x.tag = "None" THEN "None" ELSE x.v

\* needle in haystack, on str
Contains(haystack, needle) ==
    \E i \in 1..(Len(haystack) - Len(needle) + 1) :
        SubSeq(haystack, i, i + Len(needle) - 1) = needle

Whitespace == {" ", "\n", "\t"}

RECURSIVE LStrip(_)
LStrip(s) ==
    IF Len(s) > 0 /\ SubSeq(s, 1, 1) \in Whitespace
    THEN LStrip(SubSeq(s, 2, Len(s)))
    ELSE s

RECURSIVE RStrip(_)
RStrip(s) ==
    IF Len(s) > 0 /\ SubSeq(s, Len(s), Len(s)) \in Whitespace
    THEN RStrip(SubSeq(s, 1, Len(s) - 1))
    ELSE s

\* str.strip()
Strip(s) == RStrip(LStrip(s))

\* sep.join(parts), parts a sequence of str
RECURSIVE Join(_, _)
Join(parts, sep) ==
    IF Len(parts) = 0 THEN ""
    ELSE IF Len(parts) = 1 THEN parts[1]
    ELSE parts[1] \o sep \o Join(Tail(parts), sep)

-----------------------------------------------------------------------------
(* XML elements as ElementTree presents them *)

NoElem == [tag |-> "absent"]
Elem(t) == [tag |-> "elem", text |-> t]
Present(e) == e.tag = "elem"
\* "e is not None and e.text"
HasText(e) == Present(e) /\ Truthy(e.text)

\* [p.text.strip() for p in ps if p.text]   (lines 101-103, 110-112)
RECURSIVE StrippedTexts(_)
StrippedTexts(ps) ==
    IF ps = <<>> THEN <<>>
    ELSE (IF Truthy(Head(ps)) THEN <<Strip(Head(ps).v)>> ELSE <<>>)
             \o StrippedTexts(Tail(ps))

-----------------------------------------------------------------------------
(* fetch_pmc_full_text: the parsed record.                                  *)
(* A record root is                                                         *)
(*   [article_title, journal_title : element,                               *)
(*    contrib_group : NoElem or [tag, names : Seq([surname, given_names])], *)
(*    pub_date      : NoElem or [tag, year, month, day : element],          *)
(*    abstract      : NoElem or [tag, ps : Seq(text)],                      *)
(*    kwd_group     : NoElem or [tag, kwds : Seq(text)],                    *)
(*    body          : NoElem or [tag, secs : Seq([title, ps])]]             *)
(* each sequence being what findall returns, in document order.             *)

UnknownJournal == "Unknown Journal"
UnknownDate == "Unknown Date"
NoReadableText == "No readable text found."
FullTextNotAvailable == "Full text not available for this article."
ErrorRetrieving == "Error retrieving full text."

\* lines 59-60
Title(root, pmc_id) ==
    IF Present(root.article_title) THEN root.article_title.text
    ELSE Str("PMC_" \o pmc_id)

\* lines 63-64
JournalName(root) ==
    IF Present(root.journal_title) THEN root.journal_title.text
    ELSE Str(UnknownJournal)

\* lines 70-75
RECURSIVE AuthorNames(_)
AuthorNames(names) ==
    IF names = <<>> THEN <<>>
    ELSE LET author == Head(names)
         IN (IF Present(author.surname) /\ Present(author.given_names)
             THEN <<Format(author.given_names.text) \o " " \o Format(author.surname.text)>>
             ELSE <<>>) \o AuthorNames(Tail(names))

\* lines 67-75
Authors(root) ==
    IF Present(root.contrib_group) THEN AuthorNames(root.contrib_group.names)
    ELSE <<>>

\* DateParts with the month test nested under the year test: a month or a day
\* without a year is lost
DatePartsYearFirst(pub_date) ==
    IF HasText(pub_date.year)
    THEN <<pub_date.year.text.v>>
         \o (IF HasText(pub_date.month) THEN <<pub_date.month.text.v>> ELSE <<>>)
         \o (IF HasText(pub_date.day) THEN <<pub_date.day.text.v>> ELSE <<>>)
    ELSE <<>>

\* lines 85-91
DateParts(pub_date) ==
    (IF HasText(pub_date.year) THEN <<pub_date.year.text.v>> ELSE <<>>)
    \o (IF HasText(pub_date.month) THEN <<pub_date.month.text.v>> ELSE <<>>)
    \o (IF HasText(pub_date.day) THEN <<pub_date.day.text.v>> ELSE <<>>)

\* lines 78-94
Date(root) ==
    IF Present(root.pub_date) /\ DateParts(root.pub_date) # <<>>
    THEN Join(DateParts(root.pub_date), "-")
    ELSE UnknownDate

\* lines 97-104
Abstract(root) ==
    IF Present(root.abstract) THEN Join(StrippedTexts(root.abstract.ps), " ")
    ELSE ""

\* lines 107-112
Keywords(root) ==
    IF Present(root.kwd_group) THEN StrippedTexts(root.kwd_group.kwds)
    ELSE <<>>

\* lines 132-134
RECURSIVE ParagraphText(_)
ParagraphText(paragraphs) ==
    IF paragraphs = <<>> THEN ""
    ELSE (IF Truthy(Head(paragraphs)) THEN Strip(Head(paragraphs).v) \o "\n" ELSE "")
             \o ParagraphText(Tail(paragraphs))

\* lines 125-134
SectionText(sec) ==
    (IF HasText(sec.title) THEN "\n## " \o Strip(sec.title.text.v) \o "\n" ELSE "")
    \o ParagraphText(sec.ps)

\* lines 123-137
RECURSIVE FullText(_)
FullText(secs) ==
    IF secs = <<>> THEN <<>>
    ELSE (IF SectionText(Head(secs)) # "" THEN <<SectionText(Head(secs))>> ELSE <<>>)
             \o FullText(Tail(secs))

\* lines 139-146 and 149
Metadata(root, pmc_id) ==
    Dict([title    |-> Title(root, pmc_id),
          journal  |-> JournalName(root),
          authors  |-> List(Authors(root)),
          date     |-> Str(Date(root)),
          abstract |-> Str(Abstract(root)),
          keywords |-> List(Keywords(root))])

\* lines 120-149
BodyText(root) ==
    IF Present(root.body)
    THEN (IF FullText(root.body.secs) # <<>>
          THEN Join(FullText(root.body.secs), "\n")
          ELSE NoReadableText)
    ELSE FullTextNotAvailable

(* A response of the record endpoint: requests.get raises (kind "error"), or *)
(* answers with a status and a text that ET.fromstring parses into root or   *)
(* rejects (well_formed = FALSE).                                            *)
\* lines 54-151: [exc, metadata, full_text]
fetch_pmc_full_text(pmc_id, response) ==
    IF response.kind = "error"
    THEN [exc |-> "RequestException", metadata |-> None, full_text |-> ""]
    ELSE IF response.status_code = 200
    THEN (IF response.well_formed
          THEN [exc |-> NoExc,
                metadata |-> Metadata(response.root, pmc_id),
                full_text |-> BodyText(response.root)]
          ELSE [exc |-> "ParseError", metadata |-> None, full_text |-> ""])
    ELSE [exc |-> NoExc, metadata |-> None, full_text |-> ErrorRetrieving]

-----------------------------------------------------------------------------
(* Inputs of fetch_pmc_full_text *)

SeqsUpTo(S, n) == UNION {[1..k -> S] : k \in 0..n}

Ids == {"100", "200"}

TitleElems == {NoElem, Elem(None), Elem(Str("Diet: a review"))}
JournalElems == {NoElem, Elem(None), Elem(Str("Nutrients"))}

NameElem(s, g) == [surname |-> s, given_names |-> g]
ContribGroups ==
    {NoElem,
     [tag |-> "elem", names |-> <<NameElem(Elem(Str("Smith")), Elem(Str("Ann")))>>],
     [tag |-> "elem", names |-> <<NameElem(Elem(Str("Lee")), NoElem),
                                  NameElem(Elem(None), Elem(Str("Bo")))>>]}

PubDate(y, m, d) == [tag |-> "elem", year |-> y, month |-> m, day |-> d]
YearElems == {NoElem, Elem(None), Elem(Str("2021"))}
MonthElems == {NoElem, Elem(None), Elem(Str("03"))}
DayElems == {NoElem, Elem(None), Elem(Str("7"))}
PubDates ==
    {NoElem} \cup {PubDate(y, m, d) : y \in YearElems, m \in MonthElems, d \in DayElems}

Abstracts == {NoElem, [tag |-> "elem", ps |-> <<Str(" Background. "), None, Str("Aim.")>>]}
KwdGroups == {NoElem, [tag |-> "elem", kwds |-> <<Str("diet "), None>>]}

Sec(t, ps) == [title |-> t, ps |-> ps]
PlainSec == Sec(Elem(Str(" Methods ")), <<Str("We measured. "), None>>)
EmptySec == Sec(NoElem, <<None>>)
UntitledSec == Sec(Elem(None), <<Str("Text only.")>>)
ErrorSec == Sec(Elem(Str("Error analysis")), <<Str("Residuals.")>>)
SecPool == {PlainSec, EmptySec, UntitledSec, ErrorSec}

Body(secs) == [tag |-> "elem", secs |-> secs]
Bodies == {NoElem} \cup {Body(q) : q \in SeqsUpTo(SecPool, MaxSecs)}

Root(t, j, c, d, a, k, b) ==
    [article_title |-> t, journal_title |-> j, contrib_group |-> c, pub_date |-> d,
     abstract |-> a, kwd_group |-> k, body |-> b]

\* a complete record, and the same record with another body
FullRoot(b) ==
    Root(Elem(Str("Diet: a review")), Elem(Str("Nutrients")),
         [tag |-> "elem", names |-> <<NameElem(Elem(Str("Smith")), Elem(Str("Ann")))>>],
         PubDate(Elem(Str("2021")), Elem(Str("03")), Elem(Str("7"))),
         [tag |-> "elem", ps |-> <<Str(" Background. ")>>],
         [tag |-> "elem", kwds |-> <<Str("diet ")>>], b)

\* every combination of absent / textless / present header elements, and every body
Roots ==
    {Root(t, j, c, d, a, k, b) :
        t \in TitleElems, j \in JournalElems, c \in ContribGroups, d \in PubDates,
        a \in Abstracts, k \in KwdGroups, b \in {NoElem, Body(<<PlainSec>>)}}
    \cup {FullRoot(b) : b \in Bodies}

TransportError == [kind |-> "error"]
HttpStatus(code) == [kind |-> "http", status_code |-> code, well_formed |-> FALSE]
Unparsable == [kind |-> "http", status_code |-> 200, well_formed |-> FALSE]
Record(root) == [kind |-> "http", status_code |-> 200, well_formed |-> TRUE, root |-> root]

FetchResponses ==
    {TransportError, HttpStatus(404), HttpStatus(500), Unparsable}
    \cup {Record(r) : r \in Roots}

-----------------------------------------------------------------------------
(* One call of fetch_pmc_full_text on any response *)

InitFetch ==
    /\ call \in {[pmc_id |-> i, response |-> r] : i \in {"100"}, r \in FetchResponses}
    /\ ret = None
    /\ pc = "idle" /\ esearch = None /\ pmc_ids = None /\ idx = 0 /\ jsonl_file = None
    /\ events = <<>> /\ fetched = <<>> /\ exc = NoExc
    /\ s_pc = "idle" /\ collection = None /\ raw_docs = None /\ hits = None
    /\ results = None

FetchCall ==
    /\ ret = None
    /\ ret' = fetch_pmc_full_text(call.pmc_id, call.response)
    /\ UNCHANGED <<call, dlVars, rsVars>>

NextFetch == FetchCall

SpecFetch == InitFetch /\ [][NextFetch]_vars

-----------------------------------------------------------------------------
(* fetch_pmc_ids *)

\* dict.get(key, default); on a value that is no dict the attribute lookup raises
DictGet(d, key, default) ==
    IF d.tag # "dict" THEN [exc |-> "AttributeError", value |-> None]
    ELSE [exc |-> NoExc, value |-> IF key \in DOMAIN d.v THEN d.v[key] ELSE default]

(* A response of the search endpoint: requests.get raises (kind "error"), or *)
(* answers with a status and a text that is JSON for the value data or is    *)
(* not JSON (is_json = FALSE).                                               *)
\* lines 21-44: [exc, value]
fetch_pmc_ids(response) ==
    IF response.kind = "error" THEN [exc |-> NoExc, value |-> List(<<>>)]
    ELSE IF response.status_code # 200 THEN [exc |-> NoExc, value |-> List(<<>>)]
    ELSE IF ~response.is_json THEN [exc |-> NoExc, value |-> List(<<>>)]
    ELSE LET esearchresult == DictGet(response.data, "esearchresult", Dict(<<>>))
         IN IF esearchresult.exc # NoExc THEN esearchresult
            ELSE DictGet(esearchresult.value, "idlist", List(<<>>))

SearchStatus(code) == [kind |-> "http", status_code |-> code, is_json |-> FALSE]
NotJson == [kind |-> "http", status_code |-> 200, is_json |-> FALSE]
Json(data) == [kind |-> "http", status_code |-> 200, is_json |-> TRUE, data |-> data]
IdListJson(ids) ==
    Json(Dict([esearchresult |-> Dict([count |-> Str("2"), idlist |-> List(ids)])]))

IdResponses ==
    {TransportError, SearchStatus(429), NotJson,
     Json(List(<<>>)),
     Json(Dict([error |-> Str("API rate limit exceeded")])),
     Json(Dict([esearchresult |-> None])),
     Json(Dict([esearchresult |-> Dict([ERROR |-> Str("Invalid db name")])]))}
    \cup {IdListJson(ids) : ids \in SeqsUpTo(Ids, MaxIds)}

-----------------------------------------------------------------------------
(* download_pmc_articles_for_pyserini *)

\* line 175
ShouldSkip(metadata, full_text) ==
    \/ metadata = None
    \/ Contains(full_text, "Error")
    \/ Contains(full_text, "Full text not available")

\* lines 179-189
Document(pmc_id, metadata, full_text) ==
    Dict([id       |-> Str("PMC" \o pmc_id),
          title    |-> metadata.v.title,
          journal  |-> metadata.v.journal,
          authors  |-> metadata.v.authors,
          date     |-> metadata.v.date,
          abstract |-> metadata.v.abstract,
          keywords |-> metadata.v.keywords,
          contents |-> Str(full_text)])

\* records the loop fetches: a complete record with each kind of body
LoopRoots ==
    {FullRoot(b) : b \in {NoElem, Body(<<>>), Body(<<PlainSec>>), Body(<<ErrorSec>>)}}

LoopResponses ==
    {TransportError, HttpStatus(404), Unparsable} \cup {Record(r) : r \in LoopRoots}

Init ==
    /\ pc = "lookup" /\ esearch = None /\ pmc_ids = None /\ idx = 0 /\ jsonl_file = None
    /\ events = <<>> /\ fetched = <<>> /\ exc = NoExc
    /\ call = None /\ ret = None
    /\ s_pc = "idle" /\ collection = None /\ raw_docs = None /\ hits = None
    /\ results = None

\* lines 159-165
Lookup ==
    /\ pc = "lookup"
    /\ \E response \in IdResponses :
          LET r == fetch_pmc_ids(response)
          IN /\ esearch' = response
             /\ IF r.exc # NoExc
                THEN /\ pc' = "raised" /\ exc' = r.exc /\ UNCHANGED pmc_ids
                ELSE /\ pmc_ids' = r.value
                     /\ pc' = IF Truthy(r.value) THEN "open" ELSE "returned"
                     /\ UNCHANGED exc
    /\ UNCHANGED <<idx, jsonl_file, events, fetched, fnVars, rsVars>>

\* lines 167-170: makedirs and open succeed, or raise OSError
OpenOutput ==
    /\ pc = "open"
    /\ \E ok \in BOOLEAN :
          IF ok
          THEN /\ jsonl_file' = List(<<>>) /\ idx' = 1 /\ pc' = "loop"
               /\ UNCHANGED exc
          ELSE /\ pc' = "raised" /\ exc' = "OSError"
               /\ UNCHANGED <<jsonl_file, idx>>
    /\ UNCHANGED <<esearch, pmc_ids, events, fetched, fnVars, rsVars>>

\* lines 171-192: one pass of the loop body up to the write
Process ==
    /\ pc = "loop"
    /\ idx <= Len(pmc_ids.v)
    /\ \E response \in LoopResponses :
          LET pmc_id == pmc_ids.v[idx]
              r == fetch_pmc_full_text(pmc_id, response)
          IN /\ events' = Append(events, "fetch")
             /\ fetched' = Append(fetched, [pmc_id |-> pmc_id, ret |-> r])
             /\ IF r.exc # NoExc
                THEN /\ pc' = "raised" /\ exc' = r.exc
                     /\ UNCHANGED <<idx, jsonl_file>>
                ELSE IF ShouldSkip(r.metadata, r.full_text)
                THEN /\ idx' = idx + 1
                     /\ UNCHANGED <<pc, exc, jsonl_file>>
                ELSE /\ jsonl_file' =
                            List(Append(jsonl_file.v, Document(pmc_id, r.metadata, r.full_text)))
                     /\ pc' = "sleep"
                     /\ UNCHANGED <<idx, exc>>
    /\ UNCHANGED <<esearch, pmc_ids, fnVars, rsVars>>

\* line 194
Sleep ==
    /\ pc = "sleep"
    /\ events' = Append(events, "sleep")
    /\ idx' = idx + 1
    /\ pc' = "loop"
    /\ UNCHANGED <<esearch, pmc_ids, jsonl_file, fetched, exc, fnVars, rsVars>>

\* line 196: the loop is exhausted, the file is closed
Finish ==
    /\ pc = "loop"
    /\ idx > Len(pmc_ids.v)
    /\ pc' = "done"
    /\ UNCHANGED <<esearch, pmc_ids, idx, jsonl_file, events, fetched, exc, fnVars, rsVars>>

Next == Lookup \/ OpenOutput \/ Process \/ Sleep \/ Finish

Spec == Init /\ [][Next]_vars

-----------------------------------------------------------------------------
(* run_search *)

Num(n) == [tag |-> "num", v |-> n]
NotFoundMarker == "Not found in local data file"

\* lines 261-263: later lines replace earlier ones with the same id
RECURSIVE LoadDocs(_, _)
LoadDocs(lines, docs) ==
    IF lines = <<>> THEN docs
    ELSE LET doc == Head(lines)
         IN LoadDocs(Tail(lines), (doc.v.id.v :> doc) @@ docs)

\* Result with enumerate's index used as the rank
ResultZeroBased(i, hit, docs) ==
    LET data == DictGet(docs, hit.docid, None).value
    IN IF Truthy(data)
       THEN Dict([rank         |-> Num(i),
                  doc_id       |-> Str(hit.docid),
                  score        |-> Num(hit.score),
                  date         |-> DictGet(data, "date", Str("[No date]")).value,
                  journal_name |-> DictGet(data, "journal", Str("[No journal]")).value,
                  authors      |-> DictGet(data, "authors", Str("[No authors]")).value,
                  title        |-> DictGet(data, "title", Str("[No title]")).value,
                  abstract     |-> DictGet(data, "abstract", Str("[No abstract]")).value])
       ELSE Dict([rank   |-> Num(i),
                  doc_id |-> Str(hit.docid),
                  score  |-> Num(hit.score),
                  error  |-> Str(NotFoundMarker)])

\* Result with raw_docs.get(doc_id, {}) and no test of data: a missing document
\* is joined to the defaults
ResultAlwaysJoined(i, hit, docs) ==
    LET data == DictGet(docs, hit.docid, Dict(<<>>)).value
    IN Dict([rank         |-> Num(i + 1),
             doc_id       |-> Str(hit.docid),
             score        |-> Num(hit.score),
             date         |-> DictGet(data, "date", Str("[No date]")).value,
             journal_name |-> DictGet(data, "journal", Str("[No journal]")).value,
             authors      |-> DictGet(data, "authors", Str("[No authors]")).value,
             title        |-> DictGet(data, "title", Str("[No title]")).value,
             abstract     |-> DictGet(data, "abstract", Str("[No abstract]")).value])

\* lines 285-306; i is enumerate's 0-based index
Result(i, hit, docs) ==
    LET data == DictGet(docs, hit.docid, None).value
    IN IF Truthy(data)
       THEN Dict([rank         |-> Num(i + 1),
                  doc_id       |-> Str(hit.docid),
                  score        |-> Num(hit.score),
                  date         |-> DictGet(data, "date", Str("[No date]")).value,
                  journal_name |-> DictGet(data, "journal", Str("[No journal]")).value,
                  authors      |-> DictGet(data, "authors", Str("[No authors]")).value,
                  title        |-> DictGet(data, "title", Str("[No title]")).value,
                  abstract     |-> DictGet(data, "abstract", Str("[No abstract]")).value])
       ELSE Dict([rank   |-> Num(i + 1),
                  doc_id |-> Str(hit.docid),
                  score  |-> Num(hit.score),
                  error  |-> Str(NotFoundMarker)])

\* lines 281-308
Results(hs, docs) == [k \in 1..Len(hs) |-> Result(k - 1, hs[k], docs)]

(* The collection file as run_search finds it: missing, not JSON lines, or   *)
(* the lines a run of the writer left.                                        *)
TextlessTitleRoot ==
    [FullRoot(Body(<<PlainSec>>)) EXCEPT !.article_title = Elem(None), !.pub_date = NoElem]
StoredDocs ==
    {Document(i, Metadata(r, i), BodyText(r)) :
        i \in {"100", "300"}, r \in {FullRoot(Body(<<PlainSec>>)), TextlessTitleRoot}}

MissingFile == [exists |-> FALSE]
CorruptFile == [exists |-> TRUE, valid |-> FALSE]
CollectionFile(lines) == [exists |-> TRUE, valid |-> TRUE, lines |-> lines]
CollectionFiles ==
    {MissingFile, CorruptFile}
    \cup {CollectionFile(q) : q \in SeqsUpTo(StoredDocs, MaxDocs)}

(* What the searcher returns: hits in descending score order.  Scores are    *)
(* in tenths.                                                                 *)
Hit(d, s) == [docid |-> d, score |-> s]
HitIds == {"PMC100", "PMC300", "PMC999"}
Scores == {15, 21}
HitSeqs ==
    {h \in SeqsUpTo({Hit(d, s) : d \in HitIds, s \in Scores}, MaxHits) :
        \A k \in 1..(Len(h) - 1) : h[k].score >= h[k + 1].score}

InitSearch ==
    /\ s_pc = "load" /\ collection \in CollectionFiles
    /\ raw_docs = None /\ hits = None /\ results = None
    /\ pc = "idle" /\ esearch = None /\ pmc_ids = None /\ idx = 0 /\ jsonl_file = None
    /\ events = <<>> /\ fetched = <<>> /\ exc = NoExc
    /\ call = None /\ ret = None

\* lines 258-269
LoadMetadata ==
    /\ s_pc = "load"
    /\ IF collection.exists /\ collection.valid
       THEN /\ raw_docs' = Dict(LoadDocs(collection.lines, <<>>))
            /\ s_pc' = "search"
       ELSE /\ s_pc' = "returned"
            /\ UNCHANGED raw_docs
    /\ UNCHANGED <<collection, hits, results, dlVars, fnVars>>

\* lines 272-278
Search ==
    /\ s_pc = "search"
    /\ \/ \E h \in HitSeqs : hits' = List(h) /\ s_pc' = "prepare"
       \/ s_pc' = "returned" /\ UNCHANGED hits
    /\ UNCHANGED <<collection, raw_docs, results, dlVars, fnVars>>

\* lines 281-308
PrepareOutput ==
    /\ s_pc = "prepare"
    /\ results' = List(Results(hits.v, raw_docs))
    /\ s_pc' = "save"
    /\ UNCHANGED <<collection, raw_docs, hits, dlVars, fnVars>>

\* lines 320-332: the results file is written or the error is printed; results are returned
SaveResults ==
    /\ s_pc = "save"
    /\ s_pc' = "done"
    /\ UNCHANGED <<collection, raw_docs, hits, results, dlVars, fnVars>>

NextSearch == LoadMetadata \/ Search \/ PrepareOutput \/ SaveResults

SpecSearch == InitSearch /\ [][NextSearch]_vars

-----------------------------------------------------------------------------
(* Properties of fetch_pmc_full_text, under SpecFetch *)

\* the call has returned a (metadata, body) pair for a parsed record
Normalized ==
    /\ ret # None
    /\ ret.exc = NoExc
    /\ call.response.kind = "http"
    /\ call.response.status_code = 200

NonEmptyText(e) == e.tag = "elem" /\ e.text.tag = "str" /\ e.text.v # ""

\* C4: a successfully fetched record with a body container and zero sections
\* yields the unavailable-body sentinel, the string returned for a record with
\* no body container, which the writer's filter skips; never an empty string.
C4_ZeroSectionsIsSentinel ==
    (Normalized /\ call.response.root.body.tag = "elem"
                /\ call.response.root.body.secs = <<>>)
        => /\ ret.full_text = FullTextNotAvailable
           /\ ShouldSkip(ret.metadata, ret.full_text)
           /\ ret.full_text # ""

\* C6: for every successfully fetched record every Metadata field is present
\* and non-null: title, journal, date and abstract are strings, authors and
\* keywords are sequences.
C6_MetadataFieldsNonNull ==
    Normalized =>
        /\ ret.metadata.tag = "dict"
        /\ DOMAIN ret.metadata.v =
              {"title", "journal", "authors", "date", "abstract", "keywords"}
        /\ \A f \in {"title", "journal", "date", "abstract"} :
              ret.metadata.v[f].tag = "str"
        /\ \A f \in {"authors", "keywords"} : ret.metadata.v[f].tag = "list"

\* C10: the assembled date is the non-empty texts of year, month and day that
\* are present, joined with '-' in that order; with no publication date or no
\* text in any of the three it is the unknown-date sentinel.
C10_DateAssembly ==
    Normalized =>
        LET pd == call.response.root.pub_date
            date == ret.metadata.v.date
        IN IF pd.tag = "absent" THEN date = Str("Unknown Date")
           ELSE LET y == NonEmptyText(pd.year)
                    m == NonEmptyText(pd.month)
                    d == NonEmptyText(pd.day)
                    yt == pd.year.text.v
                    mt == pd.month.text.v
                    dt == pd.day.text.v
                IN /\ (y /\ m /\ d) => date = Str(yt \o "-" \o mt \o "-" \o dt)
                   /\ (y /\ m /\ ~d) => date = Str(yt \o "-" \o mt)
                   /\ (y /\ ~m /\ d) => date = Str(yt \o "-" \o dt)
                   /\ (y /\ ~m /\ ~d) => date = Str(yt)
                   /\ (~y /\ m /\ d) => date = Str(mt \o "-" \o dt)
                   /\ (~y /\ m /\ ~d) => date = Str(mt)
                   /\ (~y /\ ~m /\ d) => date = Str(dt)
                   /\ (~y /\ ~m /\ ~d) => date = Str("Unknown Date")

\* C10 witness: a record with a year and neither month nor day was normalized,
\* and its date is the year alone
C10_Witness ==
    /\ Normalized
    /\ call.response.root.pub_date.tag = "elem"
    /\ NonEmptyText(call.response.root.pub_date.year)
    /\ call.response.root.pub_date.month.tag = "absent"
    /\ call.response.root.pub_date.day.tag = "absent"
    /\ ret.metadata.v.date = Str("2021")

-----------------------------------------------------------------------------
(* Properties of download_pmc_articles_for_pyserini and fetch_pmc_ids, under Spec *)

\* ids of the documents the claim expects: one per fetch that succeeded with a
\* body other than the unavailable-body sentinel, in order
RECURSIVE ExpectedIds(_)
ExpectedIds(fs) ==
    IF fs = <<>> THEN <<>>
    ELSE LET f == Head(fs)
         IN (IF f.ret.exc = NoExc /\ f.ret.metadata # None
                  /\ f.ret.full_text # FullTextNotAvailable
             THEN <<Str("PMC" \o f.pmc_id)>> ELSE <<>>) \o ExpectedIds(Tail(fs))

FileIds == [k \in 1..Len(jsonl_file.v) |-> jsonl_file.v[k].v.id]

\* C1: when the download finishes, the collection file holds exactly one line
\* per identifier whose fetch succeeded with a body that is not the
\* unavailable-body sentinel, in identifier-list order, and no other line.
C1_FileHoldsFetchedBodies ==
    pc = "done" => FileIds = ExpectedIds(fetched)

\* C2: once the output is open, a failure while processing one identifier is
\* absorbed: no exception leaves the loop and every identifier is processed.
C2_LoopFailuresAbsorbed ==
    jsonl_file # None =>
        /\ pc # "raised"
        /\ pc = "done" => Len(fetched) = Len(pmc_ids.v)

\* C3: between any two consecutive record fetches the rate-limit delay is
\* executed, whether the earlier identifier was written or skipped.
C3_DelayBetweenFetches ==
    \A k \in 1..(Len(events) - 1) :
        events[k] = "fetch" => events[k + 1] = "sleep"

\* the response carries esearchresult.idlist
HasIdList(response) ==
    /\ response.kind = "http" /\ response.status_code = 200 /\ response.is_json
    /\ response.data.tag = "dict"
    /\ "esearchresult" \in DOMAIN response.data.v
    /\ response.data.v.esearchresult.tag = "dict"
    /\ "idlist" \in DOMAIN response.data.v.esearchresult.v

\* C5: fetch_pmc_ids never raises: on a transport error, a non-success status
\* or a malformed body it returns an empty sequence, otherwise the response's
\* id list in order.
C5_LookupFailsSoft ==
    pc # "lookup" =>
        /\ pmc_ids # None
        /\ pmc_ids = IF HasIdList(esearch)
                     THEN esearch.data.v.esearchresult.v.idlist
                     ELSE List(<<>>)

\* C9: the document ids of the collection file are pairwise distinct.
C9_DocumentIdsDistinct ==
    jsonl_file # None =>
        \A i, j \in 1..Len(jsonl_file.v) :
            i # j => jsonl_file.v[i].v.id # jsonl_file.v[j].v.id

-----------------------------------------------------------------------------
(* Properties of run_search, under SpecSearch *)

Prepared == s_pc \in {"save", "done"}

\* the line of the collection file that holds the document stored for an id:
\* the last one with that id
IsStoredLine(k, id) ==
    /\ collection.lines[k].v.id.v = id
    /\ \A m \in (k + 1)..Len(collection.lines) : collection.lines[m].v.id.v # id

InCollection(id) == \E k \in 1..Len(collection.lines) : collection.lines[k].v.id.v = id

\* C7: one SearchResult per hit, in descending score order, ranks 1..n in
\* sequence order, each with its hit's identifier and score and, when the
\* identifier is in the collection, the metadata stored for it.
C7_OneRankedResultPerHit ==
    Prepared =>
        /\ Len(results.v) = Len(hits.v)
        /\ \A k \in 1..Len(hits.v) :
              LET r == results.v[k].v
              IN /\ r.rank = Num(k)
                 /\ r.doc_id = Str(hits.v[k].docid)
                 /\ r.score = Num(hits.v[k].score)
                 /\ k < Len(hits.v) => r.score.v >= results.v[k + 1].v.score.v
                 /\ \A n \in 1..Len(collection.lines) :
                       IsStoredLine(n, hits.v[k].docid) =>
                           LET doc == collection.lines[n].v
                           IN /\ DOMAIN r = {"rank", "doc_id", "score", "date",
                                             "journal_name", "authors", "title",
                                             "abstract"}
                              /\ r.date = doc.date
                              /\ r.journal_name = doc.journal
                              /\ r.authors = doc.authors
                              /\ r.title = doc.title
                              /\ r.abstract = doc.abstract

\* C7 witness: two hits, PMC100 above PMC300, both stored, were joined
C7_Witness ==
    /\ s_pc = "done"
    /\ hits.v = <<Hit("PMC100", 21), Hit("PMC300", 15)>>
    /\ InCollection("PMC100") /\ InCollection("PMC300")
    /\ results.v[1].v.rank = Num(1) /\ results.v[2].v.rank = Num(2)
    /\ results.v[2].v.title = Str("Diet: a review")

\* C8: a hit whose identifier is not in the collection still yields a result
\* at its rank with its identifier, its score and the not-found marker, and
\* no metadata field; every hit is still output.
C8_JoinMissIsMarked ==
    Prepared =>
        /\ Len(results.v) = Len(hits.v)
        /\ \A k \in 1..Len(hits.v) :
              ~InCollection(hits.v[k].docid) =>
                  /\ DOMAIN results.v[k].v = {"rank", "doc_id", "score", "error"}
                  /\ results.v[k].v.rank = Num(k)
                  /\ results.v[k].v.doc_id = Str(hits.v[k].docid)
                  /\ results.v[k].v.score = Num(hits.v[k].score)
                  /\ results.v[k].v.error = Str("Not found in local data file")

\* C8 witness: a hit outside the collection ranked above a stored one, both output
C8_Witness ==
    /\ s_pc = "done"
    /\ Len(hits.v) = 2
    /\ ~InCollection(hits.v[1].docid) /\ InCollection(hits.v[2].docid)
    /\ "error" \in DOMAIN results.v[1].v
    /\ "title" \in DOMAIN results.v[2].v

=============================================================================
